---- MODULE Spec2Model ----
(***************************************************************************)
(* Model of backend/routers/announcements.py: the announcements router of  *)
(* the Mergington High School API.  The state is the announcements         *)
(* collection of the document store, the store's identifier generator, the *)
(* UTC clock and the request/response pair of the handler that ran last.   *)
(*                                                                         *)
(* Python values are encoded as follows.                                   *)
(*   Optional[x]   : {} is None, {x} is the value x                        *)
(*   message       : a sequence of characters, " " being whitespace        *)
(*   date string   : [fmt, t]; fmt "minutes" is 'YYYY-MM-DDTHH:MM', fmt    *)
(*                   "seconds" is 'YYYY-MM-DDTHH:MM:SS', "empty" is '',    *)
(*                   "garbage" is a string fromisoformat refuses           *)
(*   datetime      : a natural number (an instant)                         *)
(*   id string     : [valid, oid]; valid is whether bson.ObjectId accepts  *)
(*                   the string, oid the ObjectId it denotes               *)
(***************************************************************************)
EXTENDS Integers, Sequences, FiniteSets, TLC

\* largest ObjectId the store hands out (number of inserts in a behaviour)
MaxIds == 2
\* instants are 0..MaxTime, for the clock and for the dates of requests
MaxTime == 1
\* requests between their write and their read-back at the same time
MaxInflight == 2

VARIABLES
    announcements,  \* announcements_collection: a set of documents
    nextId,         \* the ObjectId the store assigns to the next insert
    utcnow,         \* what datetime.utcnow() returns
    deleted,        \* history: the ObjectIds a delete has removed
    inflight,       \* requests that have written and not yet read back
    last            \* the request handled last and its response

vars == <<announcements, nextId, utcnow, deleted, inflight, last>>

None == {}
Some(x) == {x}
Val(o) == CHOOSE x \in o : TRUE

Times == 0..MaxTime

\* teachers_collection, keyed by username; this router never writes to it
teachers_collection == {"jwilson"}

----
\* Request arguments

NoDate == [fmt |-> "empty", t |-> 0]
BadDate == [fmt |-> "garbage", t |-> 0]
Iso(t) == [fmt |-> "seconds", t |-> t]
IsoMinutes(t) == [fmt |-> "minutes", t |-> t]
IsoDates == {Iso(t) : t \in Times} \cup {IsoMinutes(0)}
DateStrings == {NoDate, BadDate} \cup IsoDates
DateArgs == {None} \cup {Some(s) : s \in DateStrings}

Usernames == {None, Some(""), Some("jwilson"), Some("mallory")}

MessageStrings == {<<>>, <<" ">>, <<"a">>, <<" ", "b", " ">>}
MessageArgs == {None} \cup {Some(m) : m \in MessageStrings}

MalformedId == [valid |-> FALSE, oid |-> 0]
WellFormedIds == [valid : {TRUE}, oid : 1..MaxIds]
IdStrings == {MalformedId} \cup WellFormedIds

NoReq ==
    [id |-> None, message |-> None, start_date |-> None, end_date |-> None,
     teacher_username |-> None, now |-> None]

----
\* Pure helpers

\* str.strip(): drop leading and trailing whitespace
RECURSIVE LStrip(_)
LStrip(s) == IF s # <<>> /\ Head(s) = " " THEN LStrip(Tail(s)) ELSE s

RECURSIVE RStrip(_)
RStrip(s) ==
    IF s # <<>> /\ s[Len(s)] = " " THEN RStrip(SubSeq(s, 1, Len(s) - 1)) ELSE s

strip(s) == LStrip(RStrip(s))

\* datetime.fromisoformat: ok is FALSE where it raises ValueError
fromisoformat(s) ==
    IF s.fmt \in {"minutes", "seconds"}
    THEN [ok |-> TRUE, dt |-> s.t]
    ELSE [ok |-> FALSE, dt |-> 0]

\* datetime.isoformat(): seconds are always written
isoformat(dt) == [fmt |-> "seconds", t |-> dt]

\* _parse_datetime: None and '' give None; a parse failure is a 400
_parse_datetime(value) ==
    IF value = None \/ value = Some(NoDate)
    THEN [ok |-> TRUE, dt |-> None]
    ELSE LET r == fromisoformat(Val(value))
         IN  IF r.ok THEN [ok |-> TRUE, dt |-> Some(r.dt)]
                     ELSE [ok |-> FALSE, dt |-> None]

\* variant: an ObjectId constructor that accepts any string
_to_object_id_lenient(id_str) == [ok |-> TRUE, oid |-> id_str.oid]

\* _to_object_id: ObjectId(id_str), a 400 where bson refuses the string
_to_object_id(id_str) == [ok |-> id_str.valid, oid |-> id_str.oid]

\* str(ObjectId)
ObjectIdStr(oid) == [valid |-> TRUE, oid |-> oid]

\* _serialize_dates after doc["id"] = str(doc.pop("_id"))
_serialize_dates(doc) ==
    [id |-> ObjectIdStr(doc._id),
     message |-> doc.message,
     start_date |-> {isoformat(d) : d \in doc.start_date},
     end_date |-> {isoformat(d) : d \in doc.end_date},
     created_at |-> isoformat(doc.created_at),
     updated_at |-> isoformat(doc.updated_at)]

\* variant: any non-empty username passes, the teacher record is not consulted
_require_teacher_presence_only(username) ==
    IF username = None \/ username = Some("")
    THEN [status |-> 401, detail |-> "Authentication required", calls |-> <<>>]
    ELSE [status |-> 200, detail |-> "", calls |-> <<"teachers.find_one">>]

\* _require_teacher: the lookup is issued only for a non-empty username
_require_teacher(username) ==
    IF username = None \/ username = Some("")
    THEN [status |-> 401, detail |-> "Authentication required", calls |-> <<>>]
    ELSE IF Val(username) \notin teachers_collection
    THEN [status |-> 401, detail |-> "Invalid teacher credentials",
          calls |-> <<"teachers.find_one">>]
    ELSE [status |-> 200, detail |-> "", calls |-> <<"teachers.find_one">>]

----
\* The document store (pymongo collection semantics, one document per call)

find_one(coll, oid) == {d \in coll : d._id = oid}

insert_one(coll, doc, oid) ==
    coll \cup {[_id |-> oid, message |-> doc.message,
                start_date |-> doc.start_date, end_date |-> doc.end_date,
                created_at |-> doc.created_at, updated_at |-> doc.updated_at]}

\* $set: the keys of update replace those of the matched document
SetFields(d, update) ==
    [k \in DOMAIN d |-> IF k \in DOMAIN update THEN update[k] ELSE d[k]]

update_one(coll, oid, update) ==
    [matched_count |-> Cardinality(find_one(coll, oid)),
     coll |-> {IF d._id = oid THEN SetFields(d, update) ELSE d : d \in coll}]

delete_one(coll, oid) ==
    [deleted_count |-> Cardinality(find_one(coll, oid)),
     coll |-> coll \ find_one(coll, oid)]

----
\* cursor.sort("end_date", direction): null sorts before every date, and the
\* order of documents with equal keys is the store's choice

SortKey(d) == IF d.end_date = None THEN -1 ELSE Val(d.end_date)

Orderings(S) ==
    {s \in [1..Cardinality(S) -> S] :
        \A i, j \in 1..Cardinality(S) : i # j => s[i] # s[j]}

sort(S, direction) ==
    {s \in Orderings(S) :
        \A i \in 1..(Cardinality(S) - 1) :
            direction * SortKey(s[i]) <= direction * SortKey(s[i + 1])}

\* variant: "$gt" in place of "$gte" on end_date
ActiveQuery_strict(coll, reference) ==
    {d \in coll :
        /\ \E e \in d.end_date : e > reference
        /\ \/ \E s \in d.start_date : s <= reference
           \/ d.start_date = None}

\* the filter of get_active_announcements; every document this router
\* inserts carries a start_date key, so "$exists: False" selects nothing
ActiveQuery(coll, reference) ==
    {d \in coll :
        /\ \E e \in d.end_date : e >= reference
        /\ \/ \E s \in d.start_date : s <= reference
           \/ d.start_date = None}

Serialized(s) == [i \in 1..Len(s) |-> _serialize_dates(s[i])]

----
\* Handlers, as functions of the collection they run against

Response(status, detail, body, calls, coll) ==
    [status |-> status, detail |-> detail, body |-> body, calls |-> calls,
     coll |-> coll]

Ok == [status |-> 200, detail |-> ""]
HTTPException(status, detail) == [status |-> status, detail |-> detail]

\* lines 100-103 and 134-137: find_one by id, then {**doc}; a document that
\* is gone makes {**None} raise TypeError, which the framework turns into 500
read_back(coll, oid, calls) ==
    LET doc == find_one(coll, oid)
        cs == Append(calls, "announcements.find_one")
    IN  IF doc = None
        THEN Response(500, "Internal Server Error", <<>>, cs, coll)
        ELSE Response(200, "", <<_serialize_dates(Val(doc))>>, cs, coll)

\* variant: the message is tested for emptiness only, not after strip()
create_validate_unstripped(req) ==
    LET message == Val(req.message)
        end_dt == _parse_datetime(req.end_date)
        start_dt == _parse_datetime(req.start_date)
    IN  IF message = <<>>
        THEN HTTPException(400, "Message is required")
        ELSE IF ~end_dt.ok
        THEN HTTPException(400, "Invalid datetime format")
        ELSE IF end_dt.dt = None
        THEN HTTPException(400, "end_date is required")
        ELSE IF ~start_dt.ok
        THEN HTTPException(400, "Invalid datetime format")
        ELSE Ok

\* the checks of create_announcement, in the order the code makes them
create_validate(req) ==
    LET message == Val(req.message)
        end_dt == _parse_datetime(req.end_date)
        start_dt == _parse_datetime(req.start_date)
    IN  IF message = <<>> \/ strip(message) = <<>>
        THEN HTTPException(400, "Message is required")
        ELSE IF ~end_dt.ok
        THEN HTTPException(400, "Invalid datetime format")
        ELSE IF end_dt.dt = None
        THEN HTTPException(400, "end_date is required")
        ELSE IF ~start_dt.ok
        THEN HTTPException(400, "Invalid datetime format")
        ELSE Ok

\* variant: the start_date of the request is not stored
CreateDoc_without_start(req, now) ==
    [message |-> strip(Val(req.message)),
     start_date |-> None,
     end_date |-> _parse_datetime(req.end_date).dt,
     created_at |-> now, updated_at |-> now]

\* the document create_announcement inserts
CreateDoc(req, now) ==
    [message |-> strip(Val(req.message)),
     start_date |-> _parse_datetime(req.start_date).dt,
     end_date |-> _parse_datetime(req.end_date).dt,
     created_at |-> now, updated_at |-> now]

\* create_announcement up to and including insert_one
create_write(coll, req, now, oid) ==
    LET auth == _require_teacher(req.teacher_username)
        valid == create_validate(req)
    IN  IF auth.status # 200
        THEN Response(auth.status, auth.detail, <<>>, auth.calls, coll)
        ELSE IF valid.status # 200
        THEN Response(valid.status, valid.detail, <<>>, auth.calls, coll)
        ELSE Response(200, "", <<>>,
                      Append(auth.calls, "announcements.insert_one"),
                      insert_one(coll, CreateDoc(req, now), oid))

\* variant: an empty end_date is not refused
update_validate_clearable(req) ==
    LET start_dt == _parse_datetime(req.start_date)
        end_dt == _parse_datetime(req.end_date)
    IN  IF req.message # None /\ strip(Val(req.message)) = <<>>
        THEN HTTPException(400, "Message cannot be empty")
        ELSE IF req.start_date # None /\ ~start_dt.ok
        THEN HTTPException(400, "Invalid datetime format")
        ELSE IF req.end_date # None /\ ~end_dt.ok
        THEN HTTPException(400, "Invalid datetime format")
        ELSE Ok

\* the checks update_announcement makes while it builds the update document
update_validate(req) ==
    LET start_dt == _parse_datetime(req.start_date)
        end_dt == _parse_datetime(req.end_date)
    IN  IF req.message # None /\ strip(Val(req.message)) = <<>>
        THEN HTTPException(400, "Message cannot be empty")
        ELSE IF req.start_date # None /\ ~start_dt.ok
        THEN HTTPException(400, "Invalid datetime format")
        ELSE IF req.end_date # None /\ ~end_dt.ok
        THEN HTTPException(400, "Invalid datetime format")
        ELSE IF req.end_date # None /\ end_dt.dt = None
        THEN HTTPException(400, "end_date cannot be null")
        ELSE Ok

\* variant: start_date is written whether or not the request provides it
UpdateDoc_whole(req, now) ==
    ("updated_at" :> now)
    @@ (IF req.message # None
        THEN ("message" :> strip(Val(req.message))) ELSE <<>>)
    @@ ("start_date" :> _parse_datetime(req.start_date).dt)
    @@ (IF req.end_date # None
        THEN ("end_date" :> _parse_datetime(req.end_date).dt) ELSE <<>>)

\* the update document: only the fields the request provides, and updated_at
UpdateDoc(req, now) ==
    ("updated_at" :> now)
    @@ (IF req.message # None
        THEN ("message" :> strip(Val(req.message))) ELSE <<>>)
    @@ (IF req.start_date # None
        THEN ("start_date" :> _parse_datetime(req.start_date).dt) ELSE <<>>)
    @@ (IF req.end_date # None
        THEN ("end_date" :> _parse_datetime(req.end_date).dt) ELSE <<>>)

\* update_announcement up to and including the matched_count test
update_write(coll, req, now) ==
    LET auth == _require_teacher(req.teacher_username)
        valid == update_validate(req)
        id == _to_object_id(Val(req.id))
        res == update_one(coll, id.oid, UpdateDoc(req, now))
        cs == Append(auth.calls, "announcements.update_one")
    IN  IF auth.status # 200
        THEN Response(auth.status, auth.detail, <<>>, auth.calls, coll)
        ELSE IF valid.status # 200
        THEN Response(valid.status, valid.detail, <<>>, auth.calls, coll)
        ELSE IF ~id.ok
        THEN Response(400, "Invalid announcement id", <<>>, auth.calls, coll)
        ELSE IF res.matched_count = 0
        THEN Response(404, "Announcement not found", <<>>, cs, coll)
        ELSE Response(200, "", <<>>, cs, res.coll)

\* variant: deleted_count is not looked at
delete_handler_idempotent(coll, req) ==
    LET auth == _require_teacher(req.teacher_username)
        id == _to_object_id(Val(req.id))
        res == delete_one(coll, id.oid)
        cs == Append(auth.calls, "announcements.delete_one")
    IN  IF auth.status # 200
        THEN Response(auth.status, auth.detail, <<>>, auth.calls, coll)
        ELSE IF ~id.ok
        THEN Response(400, "Invalid announcement id", <<>>, auth.calls, coll)
        ELSE Response(200, "Announcement deleted", <<>>, cs, res.coll)

\* delete_announcement
delete_handler(coll, req) ==
    LET auth == _require_teacher(req.teacher_username)
        id == _to_object_id(Val(req.id))
        res == delete_one(coll, id.oid)
        cs == Append(auth.calls, "announcements.delete_one")
    IN  IF auth.status # 200
        THEN Response(auth.status, auth.detail, <<>>, auth.calls, coll)
        ELSE IF ~id.ok
        THEN Response(400, "Invalid announcement id", <<>>, auth.calls, coll)
        ELSE IF res.deleted_count = 0
        THEN Response(404, "Announcement not found", <<>>, cs, coll)
        ELSE Response(200, "Announcement deleted", <<>>, cs, res.coll)

\* reference time of get_active_announcements: the truthiness of now
\* decides, and fromisoformat is called unguarded
Reference(now_arg, now) ==
    IF now_arg = None \/ now_arg = Some(NoDate)
    THEN [ok |-> TRUE, dt |-> now]
    ELSE fromisoformat(Val(now_arg))

Reply(op, req, r) ==
    [op |-> op, req |-> req, status |-> r.status, detail |-> r.detail,
     body |-> r.body, calls |-> r.calls]

CreateReq(message, end_date, start_date, teacher_username) ==
    [NoReq EXCEPT !.message = Some(message), !.end_date = Some(end_date),
                  !.start_date = start_date,
                  !.teacher_username = teacher_username]

UpdateReq(announcement_id, message, end_date, start_date, teacher_username) ==
    [NoReq EXCEPT !.id = Some(announcement_id), !.message = message,
                  !.end_date = end_date, !.start_date = start_date,
                  !.teacher_username = teacher_username]

DeleteReq(announcement_id, teacher_username) ==
    [NoReq EXCEPT !.id = Some(announcement_id),
                  !.teacher_username = teacher_username]

----
\* State machine

\* no response is waiting to be delivered
Idle ==
    [op |-> "none", req |-> NoReq, status |-> 0, detail |-> "",
     body |-> <<>>, calls |-> <<>>]

Init ==
    /\ announcements = {}
    /\ nextId = 1
    /\ utcnow \in Times
    /\ deleted = {}
    /\ inflight = {}
    /\ last = Idle

\* the client receives the response; the next request can be served
Deliver ==
    /\ last # Idle
    /\ last' = Idle
    /\ UNCHANGED <<announcements, nextId, utcnow, deleted, inflight>>

\* time passes between requests
Tick ==
    /\ last = Idle
    /\ utcnow < MaxTime
    /\ utcnow' = utcnow + 1
    /\ UNCHANGED <<announcements, nextId, deleted, inflight, last>>

\* create_announcement as a whole, run against coll
create_handler(coll, req, now, oid) ==
    LET w == create_write(coll, req, now, oid)
    IN  IF w.status = 200 THEN read_back(w.coll, oid, w.calls) ELSE w

\* update_announcement as a whole, run against coll
update_handler(coll, req, now) ==
    LET w == update_write(coll, req, now)
    IN  IF w.status = 200 THEN read_back(w.coll, Val(req.id).oid, w.calls) ELSE w

\* the result of a list handler: the documents in cursor order, serialized
Listing(results) ==
    Response(200, "", Serialized(results), <<"announcements.find">>, {})

\* the handler's effect on the collection, and its response
Respond(op, req, r) ==
    /\ announcements' = r.coll
    /\ last' = Reply(op, req, r)

RespondActive(req, reference) ==
    IF ~reference.ok
    THEN last' = Reply("active", req,
                       Response(500, "Internal Server Error", <<>>, <<>>, {}))
    ELSE \E results \in sort(ActiveQuery(announcements, reference.dt), 1) :
             last' = Reply("active", req, Listing(results))

RespondCreate(req, r) ==
    /\ r.status = 200 => nextId <= MaxIds
    /\ Respond("create", req, r)
    /\ nextId' = IF r.status = 200 THEN nextId + 1 ELSE nextId

RespondDelete(req, r) ==
    /\ Respond("delete", req, r)
    /\ deleted' = IF r.status = 200
                  THEN deleted \cup {Val(req.id).oid} ELSE deleted

\* GET /announcements/active
get_active_announcements(now) ==
    /\ last = Idle
    /\ RespondActive([NoReq EXCEPT !.now = now], Reference(now, utcnow))
    /\ UNCHANGED <<announcements, nextId, utcnow, deleted, inflight>>

\* variant: list-all sorted like list-active, with direction 1
list_announcements_ascending ==
    /\ last = Idle
    /\ \E results \in sort(announcements, 1) :
           last' = Reply("list", NoReq, Listing(results))
    /\ UNCHANGED <<announcements, nextId, utcnow, deleted, inflight>>

\* GET /announcements
list_announcements ==
    /\ last = Idle
    /\ \E results \in sort(announcements, -1) :
           last' = Reply("list", NoReq, Listing(results))
    /\ UNCHANGED <<announcements, nextId, utcnow, deleted, inflight>>

\* POST /announcements
create_announcement(message, end_date, start_date, teacher_username) ==
    /\ last = Idle
    /\ RespondCreate(
           CreateReq(message, end_date, start_date, teacher_username),
           create_handler(announcements,
               CreateReq(message, end_date, start_date, teacher_username),
               utcnow, nextId))
    /\ UNCHANGED <<utcnow, deleted, inflight>>

\* PUT /announcements/{announcement_id}
update_announcement(announcement_id, message, end_date, start_date, teacher_username) ==
    /\ last = Idle
    /\ Respond("update",
           UpdateReq(announcement_id, message, end_date, start_date,
                     teacher_username),
           update_handler(announcements,
               UpdateReq(announcement_id, message, end_date, start_date,
                         teacher_username),
               utcnow))
    /\ UNCHANGED <<nextId, utcnow, deleted, inflight>>

\* DELETE /announcements/{announcement_id}
delete_announcement(announcement_id, teacher_username) ==
    /\ last = Idle
    /\ RespondDelete(DeleteReq(announcement_id, teacher_username),
           delete_handler(announcements,
                          DeleteReq(announcement_id, teacher_username)))
    /\ UNCHANGED <<nextId, utcnow, inflight>>

Teacher == Some("jwilson")

\* Spec: a teacher edits the dates of announcements; the lists are read at
\* every reference time
Next ==
    \/ Deliver
    \/ \E now \in DateArgs : get_active_announcements(now)
    \/ list_announcements
    \/ \E end_date \in DateStrings, start_date \in DateArgs :
           create_announcement(<<"a">>, end_date, start_date, Teacher)
    \/ \E announcement_id \in WellFormedIds, end_date \in DateArgs,
          start_date \in DateArgs :
           update_announcement(announcement_id, None, end_date, start_date,
                               Teacher)
    \/ \E announcement_id \in WellFormedIds :
           delete_announcement(announcement_id, Teacher)

Spec == Init /\ [][Next]_vars

\* SpecMessages: a teacher writes and rewrites messages while time passes
NextMessages ==
    \/ Deliver
    \/ Tick
    \/ list_announcements
    \/ \E message \in MessageStrings, start_date \in {None, Some(Iso(0))} :
           create_announcement(message, Iso(MaxTime), start_date, Teacher)
    \/ \E announcement_id \in WellFormedIds, message \in MessageArgs,
          start_date \in {None, Some(NoDate)} :
           update_announcement(announcement_id, message, None, start_date,
                               Teacher)
    \/ \E announcement_id \in WellFormedIds :
           delete_announcement(announcement_id, Teacher)

SpecMessages == Init /\ [][NextMessages]_vars

\* SpecAuth: requests of every caller, on every identifier
NextAuth ==
    \/ Deliver
    \/ list_announcements
    \/ \E message \in {<<" ">>, <<"a">>}, end_date \in {Iso(0), BadDate},
          teacher_username \in Usernames :
           create_announcement(message, end_date, None, teacher_username)
    \/ \E announcement_id \in IdStrings, message \in {None, Some(<<" ">>), Some(<<"a">>)},
          end_date \in {None, Some(Iso(0)), Some(BadDate)},
          teacher_username \in Usernames :
           update_announcement(announcement_id, message, end_date, None,
                               teacher_username)
    \/ \E announcement_id \in IdStrings, teacher_username \in Usernames :
           delete_announcement(announcement_id, teacher_username)

SpecAuth == Init /\ [][NextAuth]_vars

\* SpecCreate: every combination of the fields of a create, read back
NextCreate ==
    \/ Deliver
    \/ list_announcements
    \/ \E message \in MessageStrings,
          end_date \in {NoDate, BadDate, IsoMinutes(0), Iso(MaxTime)},
          start_date \in {None, Some(NoDate), Some(BadDate),
                          Some(IsoMinutes(0)), Some(Iso(MaxTime))} :
           create_announcement(message, end_date, start_date, Teacher)

SpecCreate == Init /\ [][NextCreate]_vars

----
\* Concurrent requests: every store call is atomic, and another request may
\* run between the write of a create or an update and its read-back

Begin(op, req, oid, w) ==
    /\ announcements' = w.coll
    /\ IF w.status = 200
       THEN /\ Cardinality(inflight) < MaxInflight
            /\ inflight' = inflight \cup
                   {[op |-> op, req |-> req, oid |-> oid, calls |-> w.calls]}
            /\ UNCHANGED last
       ELSE /\ last' = Reply(op, req, w)
            /\ UNCHANGED inflight

BeginCreate(req, w) ==
    /\ w.status = 200 => nextId <= MaxIds
    /\ Begin("create", req, nextId, w)
    /\ nextId' = IF w.status = 200 THEN nextId + 1 ELSE nextId

\* create_announcement through insert_one
create_begin(message, end_date, start_date, teacher_username) ==
    /\ last = Idle
    /\ BeginCreate(
           CreateReq(message, end_date, start_date, teacher_username),
           create_write(announcements,
               CreateReq(message, end_date, start_date, teacher_username),
               utcnow, nextId))
    /\ UNCHANGED <<utcnow, deleted>>

\* update_announcement through update_one and the matched_count test
update_begin(announcement_id, message, end_date, start_date, teacher_username) ==
    /\ last = Idle
    /\ Begin("update",
           UpdateReq(announcement_id, message, end_date, start_date,
                     teacher_username),
           announcement_id.oid,
           update_write(announcements,
               UpdateReq(announcement_id, message, end_date, start_date,
                         teacher_username),
               utcnow))
    /\ UNCHANGED <<nextId, utcnow, deleted>>

\* the find_one of a create or an update, and its response
finish(p) ==
    /\ last = Idle
    /\ inflight' = inflight \ {p}
    /\ last' = Reply(p.op, p.req, read_back(announcements, p.oid, p.calls))
    /\ UNCHANGED <<announcements, nextId, utcnow, deleted>>

NextConc ==
    \/ Deliver
    \/ Tick
    \/ \E message \in {<<"a">>, <<" ">>}, start_date \in {None, Some(Iso(0))} :
           create_begin(message, Iso(MaxTime), start_date, Teacher)
    \/ \E announcement_id \in WellFormedIds, message \in {None, Some(<<"b">>)},
          start_date \in {None, Some(NoDate)} :
           update_begin(announcement_id, message, None, start_date, Teacher)
    \/ \E p \in inflight : finish(p)
    \/ \E announcement_id \in WellFormedIds :
           delete_announcement(announcement_id, Teacher)

SpecConc == Init /\ [][NextConc]_vars

----
\* Vocabulary of the properties

\* the text of s between its first and its last non-blank character
Trimmed(s) ==
    LET inked == {i \in 1..Len(s) : s[i] # " "}
        first == CHOOSE i \in inked : \A j \in inked : i <= j
        final == CHOOSE i \in inked : \A j \in inked : i >= j
    IN  IF inked = {} THEN <<>> ELSE [i \in 1..(final - first + 1) |-> s[first + i - 1]]

Blank(s) == \A i \in 1..Len(s) : s[i] = " "

\* the caller names an existing teacher record
KnownTeacher(req) ==
    \E name \in req.teacher_username : name = "jwilson"

\* d is active at reference time T
ActiveAt(d, T) ==
    /\ \E e \in d.end_date : e >= T
    /\ d.start_date = None \/ \E b \in d.start_date : b <= T

\* the reference time of the list-active request handled last
ReferenceOfLast ==
    IF last.req.now = None \/ last.req.now = Some(NoDate)
    THEN utcnow ELSE Val(last.req.now).t

Listed == {last.body[i].id.oid : i \in 1..Len(last.body)}

\* the instants a date field of a serialized record or of a request denotes
InstantsOf(field) == {x.t : x \in {y \in field : y.fmt \in {"minutes", "seconds"}}}

Mutating == {"create", "update", "delete"}

----
\* C1: an announcement is in the result of list-active(T) exactly when its
\* end_date is at or after T and its start_date is null or at or before T.
C1_ListActiveIffActive ==
    (last.op = "active" /\ last.status = 200) =>
        /\ Listed \subseteq {d._id : d \in announcements}
        /\ \A d \in announcements : d._id \in Listed <=> ActiveAt(d, ReferenceOfLast)

C1_Witness ==
    /\ last.op = "active" /\ last.status = 200
    /\ last.req.now = Some(IsoMinutes(0))
    /\ \E d \in announcements : d._id \in Listed /\ d.start_date # None
    /\ \E d \in announcements : d._id \notin Listed /\ d.start_date # None
                                /\ \E e \in d.end_date : e >= 0

\* C4: every stored announcement has an end_date, whatever requests were
\* made: create refuses a missing one and update cannot clear it.
C4_EndDatePresent ==
    \A d \in announcements : d.end_date # None

C4_Witness ==
    /\ last.op = "update" /\ last.req.end_date = Some(NoDate)
    /\ last.status = 400 /\ last.detail = "end_date cannot be null"
    /\ \E d \in announcements : d._id = Val(last.req.id).oid

\* C8: list-active is ordered by end_date ascending, list-all by end_date
\* descending, and list-all returns every stored announcement exactly once.
C8_ListsOrdered ==
    LET end(i) == InstantsOf(last.body[i].end_date)
        pairs == 1..(Len(last.body) - 1)
    IN  /\ (last.op = "active" /\ last.status = 200) =>
               \A i \in pairs : \A a \in end(i), b \in end(i + 1) : a <= b
        /\ (last.op = "list" /\ last.status = 200) =>
               /\ \A i \in pairs : \A a \in end(i), b \in end(i + 1) : a >= b
               /\ Len(last.body) = Cardinality(announcements)
               /\ Listed = {d._id : d \in announcements}

C8_Witness ==
    /\ last.op = "list" /\ Len(last.body) = 2
    /\ InstantsOf(last.body[1].end_date) = {MaxTime}
    /\ InstantsOf(last.body[2].end_date) = {0}

\* C5: a successful update that provides only message replaces the message
\* of that announcement, sets its updated_at to the current time, and leaves
\* its start_date, end_date and created_at, and every other announcement,
\* as they were.
C5_MessageOnlyUpdate ==
    [][(/\ utcnow' = utcnow
        /\ last'.op = "update" /\ last'.status = 200
        /\ last'.req.message # None
        /\ last'.req.start_date = None /\ last'.req.end_date = None)
       => \E old \in announcements :
              /\ old._id = Val(last'.req.id).oid
              /\ announcements' = (announcements \ {old}) \cup
                     {[old EXCEPT !.message = Trimmed(Val(last'.req.message)),
                                  !.updated_at = utcnow]}]_vars

C5_Witness ==
    /\ last.op = "update" /\ last.status = 200
    /\ last.req.message = Some(<<" ", "b", " ">>)
    /\ last.req.start_date = None /\ last.req.end_date = None
    /\ Cardinality(announcements) = 2
    /\ \E d \in announcements :
           /\ d._id = Val(last.req.id).oid
           /\ d.start_date # None
           /\ d.created_at < d.updated_at

\* C9: a stored message is never empty and never begins or ends with
\* whitespace: create and update answer 400 to a message that is empty or
\* all whitespace and leave the collection as it was, and otherwise store
\* the message trimmed.
C9_MessageStoredTrimmed ==
    /\ [](\A d \in announcements :
              /\ d.message # <<>>
              /\ d.message[1] # " " /\ d.message[Len(d.message)] # " ")
    /\ []((last.op \in {"create", "update"} /\ last.status = 200
           /\ last.req.message # None) =>
              \E d \in announcements :
                  /\ d._id = last.body[1].id.oid
                  /\ d.message = Trimmed(Val(last.req.message)))
    /\ [][(/\ last'.op \in {"create", "update"}
           /\ KnownTeacher(last'.req)
           /\ \E m \in last'.req.message : Blank(m))
          => /\ last'.status = 400
             /\ announcements' = announcements]_vars

C9_Witness ==
    /\ last.op = "update" /\ last.req.message = Some(<<" ">>)
    /\ last.status = 400 /\ last.detail = "Message cannot be empty"
    /\ \E d \in announcements : d._id = Val(last.req.id).oid

\* C7 as stated: the record create returns carries the message exactly as
\* it was passed in, and the start_date and end_date that were passed in.
C7_RoundTripVerbatim ==
    (last.op = "create" /\ last.status = 200) =>
        /\ last.body[1].message = Val(last.req.message)
        /\ InstantsOf(last.body[1].start_date) = InstantsOf(last.req.start_date)
        /\ InstantsOf(last.body[1].end_date) = InstantsOf(last.req.end_date)

\* C7: the record create returns, and the record list-all returns for it,
\* carries the submitted message with its surrounding whitespace removed,
\* the instant of the submitted start_date (null when none was given) and
\* the instant of the submitted end_date, dates written with seconds.
C7_RoundTripTrimmed ==
    /\ (last.op = "create" /\ last.status = 200) =>
           /\ Len(last.body) = 1
           /\ last.body[1].message = Trimmed(Val(last.req.message))
           /\ InstantsOf(last.body[1].start_date) = InstantsOf(last.req.start_date)
           /\ InstantsOf(last.body[1].end_date) = InstantsOf(last.req.end_date)
           /\ Cardinality(last.body[1].end_date) = 1
           /\ \A x \in last.body[1].start_date \cup last.body[1].end_date :
                  x.fmt = "seconds"
           /\ \E d \in announcements :
                  /\ d._id = last.body[1].id.oid
                  /\ d.message = last.body[1].message
                  /\ d.start_date = InstantsOf(last.body[1].start_date)
                  /\ d.end_date = InstantsOf(last.body[1].end_date)
    /\ (last.op = "list" /\ last.status = 200) =>
           \A i \in 1..Len(last.body) : \E d \in announcements :
               /\ d._id = last.body[i].id.oid
               /\ d.message = last.body[i].message
               /\ d.start_date = InstantsOf(last.body[i].start_date)
               /\ d.end_date = InstantsOf(last.body[i].end_date)

C7_Witness ==
    /\ last.op = "create" /\ last.status = 200
    /\ last.req.message = Some(<<" ", "b", " ">>)
    /\ last.req.start_date = Some(IsoMinutes(0))
    /\ last.body[1].message = <<"b">>
    /\ last.body[1].start_date = Some(Iso(0))

\* C2: create, update and delete change the collection only for a caller
\* whose teacher_username names an existing teacher; without a username the
\* answer is 401 "Authentication required", with an unknown one 401
\* "Invalid teacher credentials", and the collection stays as it was.
C2_TeacherRequired ==
    [][last'.op \in Mutating =>
          /\ announcements' # announcements => KnownTeacher(last'.req)
          /\ ~KnownTeacher(last'.req) =>
                 /\ announcements' = announcements
                 /\ last'.status = 401
                 /\ last'.detail =
                        IF last'.req.teacher_username \in {None, Some("")}
                        THEN "Authentication required"
                        ELSE "Invalid teacher credentials"]_vars

C2_Witness ==
    /\ last.op = "delete" /\ last.req.teacher_username = Some("mallory")
    /\ last.status = 401 /\ last.detail = "Invalid teacher credentials"
    /\ \E d \in announcements : d._id = Val(last.req.id).oid

AnnouncementCalls ==
    {i \in 1..Len(last.calls) : last.calls[i] # "teachers.find_one"}

\* C3 as stated: update and delete answer 400 to a malformed id whatever
\* the other arguments are, and no store call precedes the rejection.
C3_MalformedIdFirst ==
    (last.op \in {"update", "delete"} /\ last.req.id = Some(MalformedId)) =>
        /\ last.status = 400
        /\ last.calls = <<>>

\* C3: update and delete never read or write the announcements collection
\* for a malformed id.  The teacher check runs first: a caller who is not a
\* known teacher gets 401, a known teacher gets 400 after the teacher lookup,
\* and that 400 is "Invalid announcement id" unless update has already
\* refused the message or a date.
C3_MalformedIdBeforeAnnouncements ==
    (last.op \in {"update", "delete"} /\ last.req.id = Some(MalformedId)) =>
        /\ AnnouncementCalls = {}
        /\ last.status = IF KnownTeacher(last.req) THEN 400 ELSE 401
        /\ KnownTeacher(last.req) => last.calls = <<"teachers.find_one">>
        /\ (/\ KnownTeacher(last.req)
            /\ last.req.message \in {None, Some(<<"a">>)}
            /\ last.req.end_date \in {None, Some(Iso(0))})
           => last.detail = "Invalid announcement id"

C3_Witness ==
    /\ last.op = "update" /\ last.req.id = Some(MalformedId)
    /\ last.req.teacher_username = Some("jwilson")
    /\ last.req.message = Some(<<"a">>)
    /\ last.status = 400 /\ last.detail = "Invalid announcement id"
    /\ announcements # {}

\* an update or a delete by a known teacher on an id a delete has removed
OnDeleted ==
    /\ last'.op \in {"update", "delete"}
    /\ KnownTeacher(last'.req)
    /\ \E id \in last'.req.id : id.valid /\ id.oid \in deleted

\* C6 as stated: after a successful delete of an id, every update or delete
\* of that id by a known teacher answers 404.
C6_DeletedIsNotFound ==
    [][OnDeleted => last'.status = 404 /\ announcements' = announcements]_vars

\* C6: after a successful delete of an id, no update or delete of that id by
\* a known teacher succeeds or changes the collection: the answer is 404, or
\* the 400 of an update whose message or date is refused before the id is
\* looked at; and a create never gets an id that is or was in the collection.
C6_DeletedStaysDeleted ==
    [][/\ OnDeleted =>
              /\ announcements' = announcements
              /\ last'.status \in {400, 404}
              /\ last'.status = 400 =>
                     /\ last'.op = "update"
                     /\ \/ last'.req.message = Some(<<" ">>)
                        \/ last'.req.end_date = Some(BadDate)
       /\ nextId' # nextId =>
              /\ nextId \notin deleted
              /\ \A d \in announcements : d._id # nextId
              /\ \E d \in announcements' : d._id = nextId]_vars

C6_Witness ==
    /\ last.op = "update" /\ last.status = 404
    /\ last.req.teacher_username = Some("jwilson")
    /\ last.req.message = Some(<<"a">>)
    /\ Val(last.req.id).oid \in deleted
    /\ announcements # {}

\* C10: whatever runs between the write and the read-back, a create whose
\* insert was made and an update whose write matched answer 200 with the
\* record of that id.
C10_ReadBackFindsRecord ==
    (last.op \in {"create", "update"}
     /\ "announcements.find_one" \in {last.calls[i] : i \in 1..Len(last.calls)}) =>
        /\ last.status = 200
        /\ Len(last.body) = 1

====
